---- MODULE Spec2Model ----
(***************************************************************************)
(* Model of the upload / audio-normalisation / speech-recognition          *)
(* application: the Flask routes of app.py, convert_audio of app.py and    *)
(* voice_to_text of speech_recognition.py, run by concurrent callers       *)
(* (server worker threads) that share one file system; and the vendored   *)
(* speech SDK binding (dialog.py, transcription.py): the construction of   *)
(* the dialog configs and the blocking and future-returning methods of     *)
(* DialogServiceConnector, Conversation and ConversationTranscriber.       *)
(***************************************************************************)
EXTENDS Naturals, Sequences, FiniteSets, TLC

\* ------------------------------------------------------------------ bounds

\* Number of concurrent callers (worker threads of the HTTP server).
NumThreads == 2

Threads == 1..NumThreads

\* ------------------------------------------------------------ file system

\* convert_audio: dst = "audio/test.wav"
DST == "audio/test.wav"

\* Paths a caller may pass as an input path: two decodable recordings, an
\* undecodable file, and the destination itself (which may not exist yet).
InputPaths == {"a.mp3", "b.ogg", "bad.bin", DST}

Absent == [fmt |-> "absent", audio |-> "none"]
Empty == [fmt |-> "empty", audio |-> "none"]
Junk == [fmt |-> "junk", audio |-> "none"]

Encoded(f, a) == [fmt |-> f, audio |-> a]

\* The files on disk before the application runs.
InitialFiles(slot) ==
  [p \in InputPaths |->
     CASE p = "a.mp3" -> Encoded("mp3", "A")
       [] p = "b.ogg" -> Encoded("ogg", "B")
       [] p = "bad.bin" -> Junk
       [] OTHER -> slot]

\* What the fixed destination may hold before the first conversion.
InitialSlots == {Absent, Encoded("wav", "Old")}

\* AudioSegment.from_file(src): the containers the decoder understands.
Decodable(c) == c.fmt \in {"mp3", "ogg", "wav"}

\* AudioSegment.from_file(src): the decoded samples.
Decode(c) == c.audio

\* The exception from_file raises on a file it cannot decode.
DecodeException(c) ==
  IF c.fmt = "absent" THEN "FileNotFoundError" ELSE "CouldntDecodeError"

\* sound.export(dst, format="wav"): the bytes written for the samples.
ExportWav(samples) == Encoded("wav", samples)

\* ------------------------------------------------------------------- HTTP

None == [kind |-> "None", status |-> 0, body |-> "-"]

Routes == {"/", "/menu_page", "/service-worker.js", "/contact_page",
           "/uploader", "/other"}

NoFile == [fmt |-> "nofile", audio |-> "none"]
UploadedFile == Encoded("mp3", "U")

Requests ==
  {[route |-> r, method |-> "GET", file |-> NoFile] : r \in Routes}
  \cup {[route |-> "/uploader", method |-> "POST", file |-> f] :
          f \in {NoFile, UploadedFile}}
  \cup {[route |-> "/menu_page", method |-> "POST", file |-> NoFile]}

NoRequest == [route |-> "-", method |-> "-", file |-> NoFile]

Page(template) == [kind |-> "page", status |-> 200, body |-> template]
Redirect(location) == [kind |-> "redirect", status |-> 302, body |-> location]
ErrorResponse(code) == [kind |-> "error", status |-> code, body |-> "-"]

index == Page("index.html")
menu_page == Page("menu.html")
sw == Page("service-worker.js")
contact == Page("contact.html")

\* url_for('menu_page')
url_for_menu_page == "/menu_page"

\* upload_file: the view's return value; a function that falls off its end
\* returns None.
upload_file(req) ==
  IF req.method = "POST" THEN Redirect(url_for_menu_page) ELSE None

\* The methods each route is registered for.
AllowedMethods(route) ==
  IF route = "/uploader" THEN {"GET", "POST"} ELSE {"GET"}

\* The view registered for a route.
View(req) ==
  CASE req.route = "/" -> index
    [] req.route = "/menu_page" -> menu_page
    [] req.route = "/service-worker.js" -> sw
    [] req.route = "/contact_page" -> contact
    [] req.route = "/uploader" -> upload_file(req)
    [] OTHER -> None

\* The application's answer to a request: routing, the view, and the
\* framework's handling of a view that returns no response (an unhandled
\* TypeError, answered with 500).
Dispatch(req) ==
  IF req.route \notin {"/", "/menu_page", "/service-worker.js",
                       "/contact_page", "/uploader"}
    THEN ErrorResponse(404)
  ELSE IF req.method \notin AllowedMethods(req.route)
    THEN ErrorResponse(405)
  ELSE IF View(req) = None
    THEN ErrorResponse(500)
  ELSE View(req)

NoResponse == [kind |-> "none", status |-> 0, body |-> "-"]

\* ------------------------------------------------------------ recognition

\* speechsdk.SpeechConfig(subscription=..., region=...)
SUBSCRIPTION == "9f0e9105b01446e9a97f495cf1404ff2"
REGION == "westus2"
\* speech_config.speech_recognition_language
LANGUAGE == "es-ES"

NoSession ==
  [subscription |-> "-", region |-> "-", language |-> "-", filename |-> "-"]

\* Faulty variant of SpeechRecognizer: the recognition language is left at
\* the service's default.
SpeechRecognizer_DefaultLanguage(filename) ==
  [subscription |-> SUBSCRIPTION, region |-> REGION, language |-> "en-US",
   filename |-> filename]

\* speech_config, audio_config and the recognizer built from them.
SpeechRecognizer(filename) ==
  [subscription |-> SUBSCRIPTION, region |-> REGION, language |-> LANGUAGE,
   filename |-> filename]

NoResult ==
  [reason |-> "-", text |-> "", no_match_details |-> "",
   cancellation_reason |-> "-", error_details |-> ""]

Recognized(text) ==
  [reason |-> "RecognizedSpeech", text |-> text, no_match_details |-> "",
   cancellation_reason |-> "-", error_details |-> ""]
NoMatch ==
  [reason |-> "NoMatch", text |-> "",
   no_match_details |-> "InitialSilenceTimeout",
   cancellation_reason |-> "-", error_details |-> ""]
\* Faulty variant of Canceled: the cancellation carries no error detail.
Canceled_NoDetails(why, details) ==
  [reason |-> "Canceled", text |-> "", no_match_details |-> "",
   cancellation_reason |-> why, error_details |-> ""]
Canceled(why, details) ==
  [reason |-> "Canceled", text |-> "", no_match_details |-> "",
   cancellation_reason |-> why, error_details |-> details]
\* A result whose reason is another member of speechsdk.ResultReason.
OtherReason ==
  [reason |-> "RecognizedKeyword", text |-> "", no_match_details |-> "",
   cancellation_reason |-> "-", error_details |-> ""]

\* What recognize_once_async().get() may return for the audio it read: text
\* only for a wave file, and otherwise any of the other results.
ServiceResults(heard) ==
  (IF heard.fmt = "wav" THEN {Recognized(heard.audio)} ELSE {})
  \cup {NoMatch, Canceled("Error", "AuthenticationFailure"),
        Canceled("EndOfStream", ""), OtherReason}

\* What the call may return given the service's verdict on the session's
\* credential: a rejected credential ends the attempt as an authentication
\* error, an accepted one never does.
ServiceResultsFor(credential_ok, heard) ==
  IF credential_ok
    THEN ServiceResults(heard) \ {Canceled("Error", "AuthenticationFailure")}
    ELSE {Canceled("Error", "AuthenticationFailure")}

\* What a recognition call that reads dst makes of the conversion result
\* held there.
ReadSlot(life) ==
  CASE life = "unread" -> "read"
    [] life = "read" -> "reread"
    [] OTHER -> life

\* What a conversion that opens dst for writing makes of the conversion
\* result held there.
OverwriteSlot(life) == IF life = "unread" THEN "lost" ELSE "none"

\* Every result the service may return, whatever it read.
AllResults ==
  UNION {ServiceResults(c) : c \in {Absent} \cup {Encoded("wav", a) : a \in {"A", "B", "Old"}}}

\* Faulty variant of Report: the error details are printed for every
\* cancellation.
Report_AlwaysDetails(r) ==
  IF r.reason = "RecognizedSpeech"
    THEN << <<"Recognized: ", r.text>> >>
  ELSE IF r.reason = "NoMatch"
    THEN << <<"No speech could be recognized: ", r.no_match_details>> >>
  ELSE IF r.reason = "Canceled"
    THEN << <<"Speech Recognition canceled: ", r.cancellation_reason>>,
            <<"Errtranscripcionor details: ", r.error_details>>,
            <<"Did you set the speech resource key and region values?", "">> >>
  ELSE << >>

\* The lines voice_to_text prints after the recognition call (the if/elif
\* chain over the result's reason).
Report(r) ==
  IF r.reason = "RecognizedSpeech"
    THEN << <<"Recognized: ", r.text>> >>
  ELSE IF r.reason = "NoMatch"
    THEN << <<"No speech could be recognized: ", r.no_match_details>> >>
  ELSE IF r.reason = "Canceled"
    THEN << <<"Speech Recognition canceled: ", r.cancellation_reason>> >>
         \o (IF r.cancellation_reason = "Error"
               THEN << <<"Errtranscripcionor details: ", r.error_details>>,
                       <<"Did you set the speech resource key and region values?", "">> >>
               ELSE << >>)
  ELSE << >>

PROMPT == <<"Que te gustaria pedir?.", "">>

\* ----------------------------------------------------- speech SDK binding

\* OptionalStr = Optional[str]: an argument left at None, or a string.
OptionalStr == {"None", "str"}

\* The native configuration object behind a config: the native constructor
\* that made it and its system-language property.
NoNativeConfig == [ctor |-> "none", syslang |-> "unset"]
NativeConfig(ctor) == [ctor |-> ctor, syslang |-> "unset"]

\* Faulty variant of DialogServiceConfig_init: the property is set before
\* the type check.
DialogServiceConfig_init_SetsFirst(self_type, config_impl) ==
  IF self_type = "DialogServiceConfig"
    THEN [raised |-> "Exception",
          impl |-> [config_impl EXCEPT !.syslang = "Python"]]
    ELSE [raised |-> "-", impl |-> [config_impl EXCEPT !.syslang = "Python"]]

\* DialogServiceConfig.__init__(self, config_impl): what the constructor
\* raises and the native config the object holds afterwards.
DialogServiceConfig_init(self_type, config_impl) ==
  IF self_type = "DialogServiceConfig"
    THEN [raised |-> "Exception", impl |-> config_impl]
    ELSE [raised |-> "-", impl |-> [config_impl EXCEPT !.syslang = "Python"]]

\* Faulty variant of BotFrameworkConfig_init: a subscription key and an
\* authorization token may be given together.
BotFrameworkConfig_init_Both(subscription, auth_token, region) ==
  IF subscription = "None" /\ region = "None" /\ auth_token = "None"
    THEN [raised |-> "ValueError", impl |-> NoNativeConfig]
  ELSE IF subscription # "None" /\ region = "None"
    THEN [raised |-> "ValueError", impl |-> NoNativeConfig]
  ELSE IF auth_token # "None" /\ region = "None"
    THEN [raised |-> "ValueError", impl |-> NoNativeConfig]
  ELSE IF subscription # "None"
    THEN DialogServiceConfig_init("BotFrameworkConfig",
                                  NativeConfig("_from_subscription"))
  ELSE IF auth_token # "None"
    THEN DialogServiceConfig_init("BotFrameworkConfig",
                                  NativeConfig("_from_authorization_token"))
  ELSE [raised |-> "ValueError", impl |-> NoNativeConfig]

\* BotFrameworkConfig.__init__(subscription, auth_token, region, bot_id).
BotFrameworkConfig_init(subscription, auth_token, region) ==
  IF subscription = "None" /\ region = "None" /\ auth_token = "None"
    THEN [raised |-> "ValueError", impl |-> NoNativeConfig]
  ELSE IF subscription # "None" /\ region = "None"
    THEN [raised |-> "ValueError", impl |-> NoNativeConfig]
  ELSE IF auth_token # "None" /\ region = "None"
    THEN [raised |-> "ValueError", impl |-> NoNativeConfig]
  ELSE IF subscription # "None" /\ auth_token # "None"
    THEN [raised |-> "ValueError", impl |-> NoNativeConfig]
  ELSE IF subscription # "None"
    THEN DialogServiceConfig_init("BotFrameworkConfig",
                                  NativeConfig("_from_subscription"))
  ELSE IF auth_token # "None"
    THEN DialogServiceConfig_init("BotFrameworkConfig",
                                  NativeConfig("_from_authorization_token"))
  ELSE [raised |-> "ValueError", impl |-> NoNativeConfig]

\* Faulty variant of CustomCommandsConfig_init: the application id is not
\* checked.
CustomCommandsConfig_init_NoAppId(app_id, subscription, auth_token, region) ==
  IF subscription = "None" /\ region = "None" /\ auth_token = "None"
     /\ app_id = "None"
    THEN [raised |-> "ValueError", impl |-> NoNativeConfig]
  ELSE IF subscription # "None" /\ region = "None"
    THEN [raised |-> "ValueError", impl |-> NoNativeConfig]
  ELSE IF auth_token # "None" /\ region = "None"
    THEN [raised |-> "ValueError", impl |-> NoNativeConfig]
  ELSE IF subscription # "None" /\ auth_token # "None"
    THEN [raised |-> "ValueError", impl |-> NoNativeConfig]
  ELSE IF subscription # "None"
    THEN DialogServiceConfig_init("CustomCommandsConfig",
                                  NativeConfig("_from_subscription"))
  ELSE IF auth_token # "None"
    THEN DialogServiceConfig_init("CustomCommandsConfig",
                                  NativeConfig("_from_authorization_token"))
  ELSE [raised |-> "ValueError", impl |-> NoNativeConfig]

\* CustomCommandsConfig.__init__(app_id, subscription, auth_token, region).
CustomCommandsConfig_init(app_id, subscription, auth_token, region) ==
  IF subscription = "None" /\ region = "None" /\ auth_token = "None"
     /\ app_id = "None"
    THEN [raised |-> "ValueError", impl |-> NoNativeConfig]
  ELSE IF app_id = "None"
    THEN [raised |-> "ValueError", impl |-> NoNativeConfig]
  ELSE IF subscription # "None" /\ region = "None"
    THEN [raised |-> "ValueError", impl |-> NoNativeConfig]
  ELSE IF auth_token # "None" /\ region = "None"
    THEN [raised |-> "ValueError", impl |-> NoNativeConfig]
  ELSE IF subscription # "None" /\ auth_token # "None"
    THEN [raised |-> "ValueError", impl |-> NoNativeConfig]
  ELSE IF subscription # "None"
    THEN DialogServiceConfig_init("CustomCommandsConfig",
                                  NativeConfig("_from_subscription"))
  ELSE IF auth_token # "None"
    THEN DialogServiceConfig_init("CustomCommandsConfig",
                                  NativeConfig("_from_authorization_token"))
  ELSE [raised |-> "ValueError", impl |-> NoNativeConfig]

\* The last config construction: the class, the arguments, and what the
\* constructor did.
Config(cls, app_id, subscription, auth_token, region, done) ==
  [cls |-> cls, app_id |-> app_id, subscription |-> subscription,
   auth_token |-> auth_token, region |-> region,
   raised |-> done.raised, impl |-> done.impl]

NoConfig ==
  Config("-", "None", "None", "None", "None",
         [raised |-> "-", impl |-> NoNativeConfig])

\* The operations of the three classes that forward to the native engine.
ConnectorOps ==
  {"connect", "disconnect", "send_activity", "start_keyword_recognition",
   "stop_keyword_recognition", "listen_once", "stop_listening"}
ConversationOps ==
  {"add_participant", "remove_participant", "end_conversation",
   "start_conversation", "delete_conversation", "lock_conversation",
   "unlock_conversation", "mute_all_participants",
   "unmute_all_participants", "mute_participant", "unmute_participant"}
TranscriberOps ==
  {"join_conversation", "leave_conversation", "start_transcribing",
   "stop_transcribing"}

Classes == {"DialogServiceConnector", "Conversation", "ConversationTranscriber"}

Operations(cls) ==
  CASE cls = "DialogServiceConnector" -> ConnectorOps
    [] cls = "Conversation" -> ConversationOps
    [] OTHER -> TranscriberOps

\* The two variants of an operation op: the method op, which blocks, and
\* the method op_async, which returns a future.
Variants == {"blocking", "async"}

\* The methods each class defines, as <<operation, variant>>.
Methods(cls) ==
  CASE cls = "DialogServiceConnector" -> ConnectorOps \X Variants
    [] cls = "Conversation" -> ConversationOps \X {"async"}
    [] OTHER -> TranscriberOps \X {"async"}

\* Python values: the type and the content.
NoValue == [type |-> "-", val |-> "-"]
PyNone == [type |-> "NoneType", val |-> "None"]

\* What the native future of an operation is fulfilled with.
NativeResults(op) ==
  CASE op = "send_activity" ->
         {[type |-> "str", val |-> "interaction-1"],
          [type |-> "str", val |-> "interaction-2"]}
    [] op = "listen_once" ->
         {[type |-> "impl.SpeechRecognitionResult", val |-> "hola"],
          [type |-> "impl.SpeechRecognitionResult", val |-> ""]}
    [] op \in {"add_participant", "remove_participant"} ->
         {[type |-> "impl.Participant", val |-> "user-1"]}
    [] OTHER -> {PyNone}

AllNativeResults ==
  UNION {NativeResults(op) : op \in ConnectorOps \cup ConversationOps
                                     \cup TranscriberOps}

\* str(v)
Str(v) == [type |-> "str", val |-> v.val]
\* SpeechRecognitionResult(v)
SpeechRecognitionResult(v) ==
  [type |-> "SpeechRecognitionResult", val |-> v.val]
\* Participant(v)
Participant(v) == [type |-> "Participant", val |-> v.val]

\* Faulty variant of BlockingResult: listen_once hands out the native
\* result.
BlockingResult_Raw(op, v) == v

\* What the blocking method op of DialogServiceConnector returns when the
\* native future yields v.
BlockingResult(op, v) ==
  IF op = "listen_once" THEN SpeechRecognitionResult(v) ELSE v

\* What the method op_async returns: the native future itself ("none"), or
\* a ResultFuture around it with the type its result is wrapped in.
AsyncWrapper(cls, op) ==
  CASE cls = "DialogServiceConnector" /\ op = "send_activity" -> "str"
    [] cls = "DialogServiceConnector" /\ op = "listen_once" ->
         "SpeechRecognitionResult"
    [] cls = "Conversation"
       /\ op \in {"add_participant", "remove_participant"} -> "Participant"
    [] OTHER -> "none"

\* Waiting on what op_async returned, get(): the native future yields its
\* value, a ResultFuture yields the value wrapped in its type.
Get(wrapper, v) ==
  CASE wrapper = "str" -> Str(v)
    [] wrapper = "SpeechRecognitionResult" -> SpeechRecognitionResult(v)
    [] wrapper = "Participant" -> Participant(v)
    [] OTHER -> v

NoCall == [cls |-> "-", op |-> "-", variant |-> "-"]
NoFuture == [state |-> "none", method |-> "-", value |-> NoValue]

\* The keys a caller may pass to the property accessors: a PropertyId, or
\* a property name.
KeyArgs ==
  {[type |-> "PropertyId", val |-> "Speech_LogFilename"],
   [type |-> "str", val |-> "name-1"]}

\* The channels a caller may pass to set_service_property: a
\* ServicePropertyChannel, or its name as a string.
ChannelArgs ==
  {[type |-> "ServicePropertyChannel", val |-> "UriQueryParameter"],
   [type |-> "str", val |-> "UriQueryParameter"]}

\* The values of the native config's properties: by id, by name, and the
\* service property; "" is a property that was never set.
PropValues == {"", "v"}
NoProps ==
  [k \in {"Speech_LogFilename", "name-1", "service"} |-> ""]

\* What an accessor does: what it raises, whether it called the native
\* config, what it returns, and the properties afterwards.
Refused(p) ==
  [raised |-> "TypeError", native |-> FALSE, ret |-> NoValue, props |-> p]
Got(p, key) ==
  [raised |-> "-", native |-> TRUE, ret |-> [type |-> "str", val |-> p[key]],
   props |-> p]
Set(p, key, value) ==
  [raised |-> "-", native |-> TRUE, ret |-> PyNone,
   props |-> [p EXCEPT ![key] = value]]

\* DialogServiceConfig.get_property(property_id)
get_property(p, property_id) ==
  IF property_id.type # "PropertyId" THEN Refused(p)
  ELSE Got(p, property_id.val)

\* DialogServiceConfig.get_property_by_name(property_name)
get_property_by_name(p, property_name) ==
  IF property_name.type # "str" THEN Refused(p)
  ELSE Got(p, property_name.val)

\* Faulty variant of set_property: the key's type is not checked.
set_property_NoCheck(p, property_id, value) ==
  Set(p, property_id.val, value)

\* DialogServiceConfig.set_property(property_id, value)
set_property(p, property_id, value) ==
  IF property_id.type # "PropertyId" THEN Refused(p)
  ELSE Set(p, property_id.val, value)

\* DialogServiceConfig.set_property_by_name(property_name, value)
set_property_by_name(p, property_name, value) ==
  IF property_name.type # "str" THEN Refused(p)
  ELSE Set(p, property_name.val, value)

\* DialogServiceConfig.set_service_property(name, value, channel)
set_service_property(p, name, value, channel) ==
  IF channel.type # "ServicePropertyChannel" THEN Refused(p)
  ELSE Set(p, "service", value)

\* The last accessor call: the method, the typed argument, what the call
\* did, and the properties when it was made.
Access(method, key, done, before) ==
  [method |-> method, key |-> key, raised |-> done.raised,
   native |-> done.native, ret |-> done.ret, before |-> before]
NoAccess ==
  Access("-", [type |-> "-", val |-> "-"],
         [raised |-> "-", native |-> FALSE, ret |-> NoValue], NoProps)

\* isinstance(v, DialogServiceConfig)
IsDialogServiceConfig(v) ==
  v.type \in {"DialogServiceConfig", "BotFrameworkConfig",
              "CustomCommandsConfig"}

\* DialogServiceConnector._get_impl: the audio argument of the native
\* constructor.
get_impl(audio_config) ==
  IF audio_config # "None" THEN "audio_config._impl" ELSE "None"

\* Faulty variant of DialogServiceConnector_init: the config's type is not
\* checked.
DialogServiceConnector_init_NoCheck(dialog_service_config, audio_config) ==
  [raised |-> "-", created |-> 1, native_audio |-> get_impl(audio_config)]

\* DialogServiceConnector.__init__(dialog_service_config, audio_config):
\* what it raises, how many native connectors it creates, and the audio
\* argument the native connector was created with.
DialogServiceConnector_init(dialog_service_config, audio_config) ==
  IF ~IsDialogServiceConfig(dialog_service_config)
    THEN [raised |-> "ValueError", created |-> 0, native_audio |-> "-"]
    ELSE [raised |-> "-", created |-> 1,
          native_audio |-> get_impl(audio_config)]

\* What a caller may pass as dialog_service_config: a config instance, a
\* SpeechConfig, or None.
ConfigArgs ==
  {[type |-> c] : c \in {"BotFrameworkConfig", "CustomCommandsConfig",
                         "SpeechConfig", "NoneType"}}

\* The last connector construction.
Connector(dialog_service_config, audio_config, done) ==
  [config |-> dialog_service_config.type, audio_config |-> audio_config,
   raised |-> done.raised, created |-> done.created,
   native_audio |-> done.native_audio]
NoConnector ==
  Connector([type |-> "-"], "-",
            [raised |-> "-", created |-> 0, native_audio |-> "-"])

\* Python's booleans.
PyTrue == [type |-> "bool", val |-> "True"]
PyFalse == [type |-> "bool", val |-> "False"]

\* The native event arguments of an activity: the payload, whether the
\* payload comes with audio data, the has_audio flag and the native audio
\* stream.
NativeEvtArgs ==
  {[activity |-> a, data |-> TRUE, has_audio |-> PyTrue,
    audio |-> "stream-1"] : a \in {"{}", "{\"type\":\"message\"}"}}
  \cup
  {[activity |-> a, data |-> FALSE, has_audio |-> PyFalse,
    audio |-> "null"] : a \in {"{}", "{\"type\":\"message\"}"}}

\* PullAudioOutputStream(stream_impl=handle)
PullAudioOutputStream(handle) ==
  [type |-> "PullAudioOutputStream", val |-> handle]

\* Faulty variant of ActivityReceivedEventArgs_init: the native stream is
\* wrapped whether or not there is audio.
ActivityReceivedEventArgs_init_AlwaysWraps(evt_args) ==
  [activity |-> evt_args.activity, has_audio |-> evt_args.has_audio,
   audio |-> PullAudioOutputStream(evt_args.audio), evt_args |-> evt_args]

\* ActivityReceivedEventArgs.__init__(evt_args): the object's activity,
\* has_audio and audio, and the native arguments it was made from.
ActivityReceivedEventArgs_init(evt_args) ==
  [activity |-> evt_args.activity, has_audio |-> evt_args.has_audio,
   audio |-> IF evt_args.has_audio = PyTrue
               THEN PullAudioOutputStream(evt_args.audio)
               ELSE PyNone,
   evt_args |-> evt_args]

NoEvent ==
  [activity |-> "-", has_audio |-> NoValue, audio |-> NoValue,
   evt_args |-> [activity |-> "-", data |-> FALSE, has_audio |-> NoValue,
                 audio |-> "-"]]

\* The operations of Conversation that take a participant or a user id.
ParticipantOps == {"add_participant", "remove_participant"}

\* Faulty variant of add_participant_async: given both, the participant
\* object is forwarded.
add_participant_async_Both(participant, user_id) ==
  IF participant = "None" /\ user_id = "None"
    THEN [raised |-> "ValueError", native_arg |-> "-"]
  ELSE IF participant # "None"
    THEN [raised |-> "-", native_arg |-> "participant._impl"]
  ELSE [raised |-> "-", native_arg |-> "user_id"]

\* Conversation.add_participant_async(participant, user_id): what it raises
\* and the argument it forwards to the native conversation.
add_participant_async(participant, user_id) ==
  IF participant = "None" /\ user_id = "None"
    THEN [raised |-> "ValueError", native_arg |-> "-"]
  ELSE IF participant # "None" /\ user_id # "None"
    THEN [raised |-> "ValueError", native_arg |-> "-"]
  ELSE IF participant # "None"
    THEN [raised |-> "-", native_arg |-> "participant._impl"]
  ELSE [raised |-> "-", native_arg |-> "user_id"]

\* Conversation.remove_participant_async(participant, user_id)
remove_participant_async(participant, user_id) ==
  IF participant = "None" /\ user_id = "None"
    THEN [raised |-> "ValueError", native_arg |-> "-"]
  ELSE IF participant # "None" /\ user_id # "None"
    THEN [raised |-> "ValueError", native_arg |-> "-"]
  ELSE IF participant # "None"
    THEN [raised |-> "-", native_arg |-> "participant._impl"]
  ELSE [raised |-> "-", native_arg |-> "user_id"]

\* The arguments of the last participant call, what was forwarded, and the
\* conversation's participants when the call was made.
NoArgs ==
  [participant |-> "-", user_id |-> "-", native_arg |-> "-", before |-> {}]

\* The participants of the native conversation once the native operation
\* has added or removed the participant v.
NativeParticipants(op, v, members) ==
  CASE op = "add_participant" -> members \cup {v.val}
    [] op = "remove_participant" -> members \ {v.val}
    [] OTHER -> members

\* ------------------------------------------------------------------ state

VARIABLES
  fs,         \* the file system: path -> content
  pc,         \* each caller's position
  request,    \* the HTTP request being handled
  resp,       \* the HTTP response sent
  input_path, \* convert_audio's argument
  sound,      \* convert_audio's local: the decoded samples
  wrote,      \* whether this call of convert_audio has written to dst
  conv_ret,   \* convert_audio's return value
  exc,        \* the exception that ended the caller's call
  audiofile,  \* voice_to_text's argument
  session,    \* the recognizer voice_to_text built
  attempts,   \* recognition calls issued by this call of voice_to_text
  heard,      \* the audio the recognition call read
  result,     \* voice_to_text's local speech_recognition_result
  out,        \* the lines this call of voice_to_text printed
  ret,        \* voice_to_text's return value
  accepted,   \* whether the service accepted the credential of this call's session
  slot_life   \* what became of the conversion result held at dst

\* The state of a client of the SDK's dialog and transcription classes.
VARIABLES
  cfg,       \* the last config construction
  call,      \* the method the client called last
  future,    \* the native future that call started
  sdk_pc,    \* where the client is in its call
  sdk_ret,   \* what the client got from the call, after waiting
  sdk_exc,   \* the exception the call raised
  args,      \* the arguments of the last participant call
  participants,  \* the participants of the native conversation
  props,     \* the properties of the config's native config
  acc,       \* the last call of a property accessor
  connector, \* the last connector construction
  event      \* the last activity event delivered to the client

appVars == <<fs, pc, request, resp, input_path, sound, wrote, conv_ret, exc,
             audiofile, session, attempts, heard, result, out, ret, accepted,
             slot_life>>
callVars == <<call, future, sdk_pc, sdk_ret, sdk_exc, args, participants>>
cfgVars == <<props, acc, connector>>
sdkVars == <<cfg, callVars, cfgVars, event>>
vars == <<appVars, sdkVars>>

convVars == <<input_path, sound, wrote, conv_ret>>
recVars == <<audiofile, session, attempts, heard, result, out, ret, accepted>>
httpVars == <<request, resp>>

\* The values the state holds.
TypeOK ==
  /\ DOMAIN fs = InputPaths
  /\ pc \in [Threads -> {"idle", "responded", "c_decode", "c_export", "c_write",
                         "c_return", "c_done", "v_config", "v_recognize",
                         "v_report", "v_done", "raised"}]
  /\ request \in [Threads -> Requests \cup {NoRequest}]
  /\ \A t \in Threads : resp[t] \in {NoResponse} \cup {Dispatch(r) : r \in Requests}
  /\ input_path \in [Threads -> InputPaths \cup {"-"}]
  /\ sound \in [Threads -> {"none", "A", "B", "Old"}]
  /\ wrote \in [Threads -> BOOLEAN]
  /\ conv_ret \in [Threads -> {"-", DST}]
  /\ exc \in [Threads -> {"-", "CouldntDecodeError", "FileNotFoundError", "RuntimeError"}]
  /\ audiofile \in [Threads -> InputPaths \cup {"-"}]
  /\ \A t \in Threads : session[t] \in {NoSession, SpeechRecognizer(audiofile[t])}
  /\ attempts \in [Threads -> 0..1]
  /\ \A t \in Threads : result[t] \in AllResults \cup {NoResult}
  /\ \A t \in Threads : ret[t] \in {NoResult, result[t]}
  /\ \A t \in Threads : Len(out[t]) <= 4
  /\ accepted \in [Threads -> {"-", "yes", "no"}]
  /\ slot_life \in {"none", "unread", "read", "reread", "lost"}

\* A caller between two calls.
Free(t) == pc[t] \in {"idle", "responded", "c_done", "v_done", "raised"}

Init ==
  /\ fs \in {InitialFiles(slot) : slot \in InitialSlots}
  /\ pc = [t \in Threads |-> "idle"]
  /\ request = [t \in Threads |-> NoRequest]
  /\ resp = [t \in Threads |-> NoResponse]
  /\ input_path = [t \in Threads |-> "-"]
  /\ sound = [t \in Threads |-> "none"]
  /\ wrote = [t \in Threads |-> FALSE]
  /\ conv_ret = [t \in Threads |-> "-"]
  /\ exc = [t \in Threads |-> "-"]
  /\ audiofile = [t \in Threads |-> "-"]
  /\ session = [t \in Threads |-> NoSession]
  /\ attempts = [t \in Threads |-> 0]
  /\ heard = [t \in Threads |-> Absent]
  /\ result = [t \in Threads |-> NoResult]
  /\ out = [t \in Threads |-> << >>]
  /\ ret = [t \in Threads |-> NoResult]
  /\ accepted = [t \in Threads |-> "-"]
  /\ slot_life = "none"
  /\ cfg = NoConfig
  /\ call = NoCall
  /\ future = NoFuture
  /\ sdk_pc = "idle"
  /\ sdk_ret = NoValue
  /\ sdk_exc = "-"
  /\ args = NoArgs
  /\ participants = {}
  /\ props = NoProps
  /\ acc = NoAccess
  /\ connector = NoConnector
  /\ event = NoEvent

\* The caller's locals at the start of a new call.
Reset(t, nextpc) ==
  /\ pc' = [pc EXCEPT ![t] = nextpc]
  /\ sound' = [sound EXCEPT ![t] = "none"]
  /\ wrote' = [wrote EXCEPT ![t] = FALSE]
  /\ conv_ret' = [conv_ret EXCEPT ![t] = "-"]
  /\ exc' = [exc EXCEPT ![t] = "-"]
  /\ session' = [session EXCEPT ![t] = NoSession]
  /\ attempts' = [attempts EXCEPT ![t] = 0]
  /\ heard' = [heard EXCEPT ![t] = Absent]
  /\ result' = [result EXCEPT ![t] = NoResult]
  /\ out' = [out EXCEPT ![t] = << >>]
  /\ ret' = [ret EXCEPT ![t] = NoResult]
  /\ accepted' = [accepted EXCEPT ![t] = "-"]

\* ------------------------------------------------------------ HTTP server

\* Faulty variant of HandleRequest: an upload is converted into dst.
HandleRequest_Converts(t, req) ==
  /\ Free(t)
  /\ Reset(t, "responded")
  /\ request' = [request EXCEPT ![t] = req]
  /\ resp' = [resp EXCEPT ![t] = Dispatch(req)]
  /\ input_path' = [input_path EXCEPT ![t] = "-"]
  /\ audiofile' = [audiofile EXCEPT ![t] = "-"]
  /\ fs' = IF req.file # NoFile
             THEN [fs EXCEPT ![DST] = ExportWav(Decode(req.file))]
             ELSE fs
  /\ UNCHANGED slot_life
  /\ UNCHANGED sdkVars

\* One request to the application: the routed view runs and its return
\* value is sent as the response.
HandleRequest(t, req) ==
  /\ Free(t)
  /\ Reset(t, "responded")
  /\ request' = [request EXCEPT ![t] = req]
  /\ resp' = [resp EXCEPT ![t] = Dispatch(req)]
  /\ input_path' = [input_path EXCEPT ![t] = "-"]
  /\ audiofile' = [audiofile EXCEPT ![t] = "-"]
  /\ UNCHANGED <<fs, slot_life>>
  /\ UNCHANGED sdkVars

\* ---------------------------------------------------------- convert_audio

\* A caller calls convert_audio(input_path).
CallConvert(t, p) ==
  /\ Free(t)
  /\ Reset(t, "c_decode")
  /\ input_path' = [input_path EXCEPT ![t] = p]
  /\ audiofile' = [audiofile EXCEPT ![t] = "-"]
  /\ request' = [request EXCEPT ![t] = NoRequest]
  /\ resp' = [resp EXCEPT ![t] = NoResponse]
  /\ UNCHANGED <<fs, slot_life>>
  /\ UNCHANGED sdkVars

\* sound = AudioSegment.from_file(src), the file decodes.
FromFile(t) ==
  /\ pc[t] = "c_decode"
  /\ Decodable(fs[input_path[t]])
  /\ sound' = [sound EXCEPT ![t] = Decode(fs[input_path[t]])]
  /\ pc' = [pc EXCEPT ![t] = "c_export"]
  /\ UNCHANGED <<fs, slot_life, httpVars, input_path, wrote, conv_ret, exc, recVars>>
  /\ UNCHANGED sdkVars

\* Faulty variant of FromFileRaises: the decode error is caught and dst is
\* returned all the same.
FromFileRaises_Swallowed(t) ==
  /\ pc[t] = "c_decode"
  /\ ~Decodable(fs[input_path[t]])
  /\ conv_ret' = [conv_ret EXCEPT ![t] = DST]
  /\ pc' = [pc EXCEPT ![t] = "c_done"]
  /\ UNCHANGED <<fs, slot_life, httpVars, input_path, sound, wrote, exc, recVars>>
  /\ UNCHANGED sdkVars

\* Faulty variant of FromFileRaises: dst is opened for writing before the
\* input is decoded, so a failed decode leaves it truncated.
FromFileRaises_Truncates(t) ==
  /\ pc[t] = "c_decode"
  /\ ~Decodable(fs[input_path[t]])
  /\ fs' = [fs EXCEPT ![DST] = Empty]
  /\ wrote' = [wrote EXCEPT ![t] = TRUE]
  /\ exc' = [exc EXCEPT ![t] = DecodeException(fs[input_path[t]])]
  /\ pc' = [pc EXCEPT ![t] = "raised"]
  /\ slot_life' = OverwriteSlot(slot_life)
  /\ UNCHANGED <<httpVars, input_path, sound, conv_ret, recVars>>
  /\ UNCHANGED sdkVars

\* sound = AudioSegment.from_file(src), the file does not decode: the
\* exception leaves convert_audio.
FromFileRaises(t) ==
  /\ pc[t] = "c_decode"
  /\ ~Decodable(fs[input_path[t]])
  /\ exc' = [exc EXCEPT ![t] = DecodeException(fs[input_path[t]])]
  /\ pc' = [pc EXCEPT ![t] = "raised"]
  /\ UNCHANGED <<fs, slot_life, httpVars, convVars, recVars>>
  /\ UNCHANGED sdkVars

\* sound.export(dst, format="wav") opens dst for writing, which truncates it.
ExportOpen(t) ==
  /\ pc[t] = "c_export"
  /\ fs' = [fs EXCEPT ![DST] = Empty]
  /\ wrote' = [wrote EXCEPT ![t] = TRUE]
  /\ pc' = [pc EXCEPT ![t] = "c_write"]
  /\ slot_life' = OverwriteSlot(slot_life)
  /\ UNCHANGED <<httpVars, input_path, sound, conv_ret, exc, recVars>>
  /\ UNCHANGED sdkVars

\* sound.export(dst, format="wav") writes the wave data and closes the file.
ExportWrite(t) ==
  /\ pc[t] = "c_write"
  /\ fs' = [fs EXCEPT ![DST] = ExportWav(sound[t])]
  /\ pc' = [pc EXCEPT ![t] = "c_return"]
  /\ slot_life' = "unread"
  /\ UNCHANGED <<httpVars, convVars, exc, recVars>>
  /\ UNCHANGED sdkVars

\* Faulty variant of ConvertReturn: the input path is returned.
ConvertReturn_ReturnsSrc(t) ==
  /\ pc[t] = "c_return"
  /\ conv_ret' = [conv_ret EXCEPT ![t] = input_path[t]]
  /\ pc' = [pc EXCEPT ![t] = "c_done"]
  /\ UNCHANGED <<fs, slot_life, httpVars, input_path, sound, wrote, exc, recVars>>
  /\ UNCHANGED sdkVars

\* return dst
ConvertReturn(t) ==
  /\ pc[t] = "c_return"
  /\ conv_ret' = [conv_ret EXCEPT ![t] = DST]
  /\ pc' = [pc EXCEPT ![t] = "c_done"]
  /\ UNCHANGED <<fs, slot_life, httpVars, input_path, sound, wrote, exc, recVars>>
  /\ UNCHANGED sdkVars

\* ---------------------------------------------------------- voice_to_text

\* A caller calls voice_to_text(audiofile) on a path of its choice.
CallVoiceToText(t, p) ==
  /\ Free(t)
  /\ Reset(t, "v_config")
  /\ audiofile' = [audiofile EXCEPT ![t] = p]
  /\ input_path' = [input_path EXCEPT ![t] = "-"]
  /\ request' = [request EXCEPT ![t] = NoRequest]
  /\ resp' = [resp EXCEPT ![t] = NoResponse]
  /\ UNCHANGED <<fs, slot_life>>
  /\ UNCHANGED sdkVars

\* The composed flow: the caller passes the path convert_audio returned on
\* to voice_to_text.
ChainVoiceToText(t) ==
  /\ pc[t] = "c_done"
  /\ audiofile' = [audiofile EXCEPT ![t] = conv_ret[t]]
  /\ pc' = [pc EXCEPT ![t] = "v_config"]
  /\ UNCHANGED <<fs, slot_life, httpVars, convVars, exc, session, attempts, heard,
                 result, out, ret, accepted>>
  /\ UNCHANGED sdkVars

\* Lines 5-11: the configuration, the recognizer, and the prompt.
OpenSession(t) ==
  /\ pc[t] = "v_config"
  /\ session' = [session EXCEPT ![t] = SpeechRecognizer(audiofile[t])]
  /\ out' = [out EXCEPT ![t] = Append(@, PROMPT)]
  /\ pc' = [pc EXCEPT ![t] = "v_recognize"]
  /\ UNCHANGED <<fs, slot_life, httpVars, convVars, exc, audiofile, attempts, heard,
                 result, ret, accepted>>
  /\ UNCHANGED sdkVars

\* Faulty variant of RecognizeOnce: a canceled attempt is tried again.
RecognizeOnce_Retry(t, r) ==
  /\ pc[t] = "v_recognize"
  /\ attempts[t] < 3
  /\ \E ok \in BOOLEAN :
       /\ r \in ServiceResultsFor(ok, fs[session[t].filename])
       /\ accepted' = [accepted EXCEPT ![t] = IF ok THEN "yes" ELSE "no"]
  /\ attempts' = [attempts EXCEPT ![t] = @ + 1]
  /\ heard' = [heard EXCEPT ![t] = fs[session[t].filename]]
  /\ result' = [result EXCEPT ![t] = r]
  /\ pc' = [pc EXCEPT ![t] = IF r.reason = "Canceled" THEN "v_recognize" ELSE "v_report"]
  /\ slot_life' = IF session[t].filename = DST THEN ReadSlot(slot_life) ELSE slot_life
  /\ UNCHANGED <<fs, httpVars, convVars, exc, audiofile, session, out, ret>>
  /\ UNCHANGED sdkVars

\* speech_recognizer.recognize_once_async().get() returns a result.
RecognizeOnce(t, r) ==
  /\ pc[t] = "v_recognize"
  /\ \E ok \in BOOLEAN :
       /\ r \in ServiceResultsFor(ok, fs[session[t].filename])
       /\ accepted' = [accepted EXCEPT ![t] = IF ok THEN "yes" ELSE "no"]
  /\ attempts' = [attempts EXCEPT ![t] = @ + 1]
  /\ heard' = [heard EXCEPT ![t] = fs[session[t].filename]]
  /\ result' = [result EXCEPT ![t] = r]
  /\ pc' = [pc EXCEPT ![t] = "v_report"]
  /\ slot_life' = IF session[t].filename = DST THEN ReadSlot(slot_life) ELSE slot_life
  /\ UNCHANGED <<fs, httpVars, convVars, exc, audiofile, session, out, ret>>
  /\ UNCHANGED sdkVars

\* speech_recognizer.recognize_once_async().get() raises: the exception
\* leaves voice_to_text.
RecognizeOnceRaises(t) ==
  /\ pc[t] = "v_recognize"
  /\ attempts' = [attempts EXCEPT ![t] = @ + 1]
  /\ heard' = [heard EXCEPT ![t] = fs[session[t].filename]]
  /\ exc' = [exc EXCEPT ![t] = "RuntimeError"]
  /\ pc' = [pc EXCEPT ![t] = "raised"]
  /\ slot_life' = IF session[t].filename = DST THEN ReadSlot(slot_life) ELSE slot_life
  /\ UNCHANGED <<fs, httpVars, convVars, audiofile, session, result, out, ret, accepted>>
  /\ UNCHANGED sdkVars

\* Faulty variant of ReportAndReturn: the function ends without returning
\* the result.
ReportAndReturn_NoReturn(t) ==
  /\ pc[t] = "v_report"
  /\ out' = [out EXCEPT ![t] = @ \o Report(result[t])]
  /\ pc' = [pc EXCEPT ![t] = "v_done"]
  /\ UNCHANGED <<fs, slot_life, httpVars, convVars, exc, audiofile, session, attempts,
                 heard, result, ret, accepted>>
  /\ UNCHANGED sdkVars

\* Faulty variant of ReportAndReturn: a reason outside the three branches
\* ends the call with an exception.
ReportAndReturn_RaisesOnOther(t) ==
  /\ pc[t] = "v_report"
  /\ out' = [out EXCEPT ![t] = @ \o Report(result[t])]
  /\ IF result[t].reason \in {"RecognizedSpeech", "NoMatch", "Canceled"}
       THEN /\ ret' = [ret EXCEPT ![t] = result[t]]
            /\ pc' = [pc EXCEPT ![t] = "v_done"]
            /\ UNCHANGED exc
       ELSE /\ exc' = [exc EXCEPT ![t] = "RuntimeError"]
            /\ pc' = [pc EXCEPT ![t] = "raised"]
            /\ UNCHANGED ret
  /\ UNCHANGED <<fs, slot_life, httpVars, convVars, audiofile, session, attempts,
                 heard, result, accepted>>
  /\ UNCHANGED sdkVars

\* Lines 14-24: the report of the result, and return speech_recognition_result.
ReportAndReturn(t) ==
  /\ pc[t] = "v_report"
  /\ out' = [out EXCEPT ![t] = @ \o Report(result[t])]
  /\ ret' = [ret EXCEPT ![t] = result[t]]
  /\ pc' = [pc EXCEPT ![t] = "v_done"]
  /\ UNCHANGED <<fs, slot_life, httpVars, convVars, exc, audiofile, session, attempts,
                 heard, result, accepted>>
  /\ UNCHANGED sdkVars

\* ----------------------------------------------------- speech SDK binding

TypeOKSdk ==
  /\ cfg.cls \in {"-", "DialogServiceConfig", "BotFrameworkConfig",
                   "CustomCommandsConfig"}
  /\ cfg.raised \in {"-", "ValueError", "Exception"}
  /\ cfg.impl.syslang \in {"unset", "Python"}
  /\ call = NoCall \/ (call.cls \in Classes /\ call.op \in Operations(call.cls)
                         /\ call.variant \in Variants)
  /\ future.state \in {"none", "pending", "done"}
  /\ future.value \in AllNativeResults \cup {NoValue}
  /\ sdk_pc \in {"idle", "blocked", "handed", "returned", "raised"}
  /\ sdk_exc \in {"-", "AttributeError", "ValueError"}
  /\ args.participant \in OptionalStr \cup {"-"}
  /\ args.user_id \in OptionalStr \cup {"-"}
  /\ args.native_arg \in {"-", "participant._impl", "user_id"}
  /\ participants \subseteq {"user-1"}
  /\ props \in [DOMAIN NoProps -> PropValues]
  /\ acc.raised \in {"-", "TypeError"}
  /\ acc.before \in [DOMAIN NoProps -> PropValues]
  /\ connector.raised \in {"-", "ValueError"}
  /\ connector.created \in {0, 1}
  /\ event = NoEvent \/ event.evt_args \in NativeEvtArgs

\* A client of the binding is between two calls.
SdkFree == sdk_pc \in {"idle", "returned", "raised"}

\* DialogServiceConfig(config_impl), the base class itself.
ConstructDialogServiceConfig(config_impl) ==
  /\ SdkFree
  /\ cfg' = Config("DialogServiceConfig", "None", "None", "None", "None",
                   DialogServiceConfig_init("DialogServiceConfig", config_impl))
  /\ props' = NoProps
  /\ acc' = NoAccess
  /\ UNCHANGED <<callVars, connector, event, appVars>>

\* BotFrameworkConfig(subscription, auth_token, region)
ConstructBotFrameworkConfig(subscription, auth_token, region) ==
  /\ SdkFree
  /\ cfg' = Config("BotFrameworkConfig", "None", subscription, auth_token,
                   region,
                   BotFrameworkConfig_init(subscription, auth_token, region))
  /\ props' = NoProps
  /\ acc' = NoAccess
  /\ UNCHANGED <<callVars, connector, event, appVars>>

\* CustomCommandsConfig(app_id, subscription, auth_token, region)
ConstructCustomCommandsConfig(app_id, subscription, auth_token, region) ==
  /\ SdkFree
  /\ cfg' = Config("CustomCommandsConfig", app_id, subscription, auth_token,
                   region,
                   CustomCommandsConfig_init(app_id, subscription,
                                             auth_token, region))
  /\ props' = NoProps
  /\ acc' = NoAccess
  /\ UNCHANGED <<callVars, connector, event, appVars>>

\* A config object exists: the last construction succeeded.
HasConfig == cfg.cls # "-" /\ cfg.raised = "-"

\* The client calls an accessor of its config; done is what the accessor
\* does.
CallAccessor(method, key, done) ==
  /\ HasConfig
  /\ acc' = Access(method, key, done, props)
  /\ props' = done.props
  /\ UNCHANGED <<cfg, callVars, connector, event, appVars>>

GetProperty(key) == CallAccessor("get_property", key, get_property(props, key))

GetPropertyByName(key) ==
  CallAccessor("get_property_by_name", key, get_property_by_name(props, key))

SetProperty(key, value) ==
  CallAccessor("set_property", key, set_property(props, key, value))

SetPropertyByName(key, value) ==
  CallAccessor("set_property_by_name", key,
               set_property_by_name(props, key, value))

SetServiceProperty(channel, value) ==
  CallAccessor("set_service_property", channel,
               set_service_property(props, "name-1", value, channel))

\* DialogServiceConnector(dialog_service_config, audio_config); a config
\* instance can only be passed once it has been constructed.
ConstructConnector(dialog_service_config, audio_config) ==
  /\ IsDialogServiceConfig(dialog_service_config) =>
       HasConfig /\ cfg.cls = dialog_service_config.type
  /\ connector' = Connector(dialog_service_config, audio_config,
                            DialogServiceConnector_init(dialog_service_config,
                                                        audio_config))
  /\ UNCHANGED <<cfg, callVars, props, acc, event, appVars>>

\* The connector delivers an activity to a handler of activity_received.
ReceiveActivity(evt_args) ==
  /\ event' = ActivityReceivedEventArgs_init(evt_args)
  /\ UNCHANGED <<cfg, callVars, cfgVars, appVars>>

\* The client calls a method the class defines: the method starts the
\* native asynchronous operation; the blocking method then waits, the
\* _async method returns the future to the client.
CallMethod(cls, op, variant) ==
  /\ SdkFree
  /\ <<op, variant>> \in Methods(cls)
  /\ op \notin ParticipantOps
  /\ call' = [cls |-> cls, op |-> op, variant |-> variant]
  /\ future' = [state |-> "pending", method |-> op, value |-> NoValue]
  /\ sdk_pc' = IF variant = "blocking" THEN "blocked" ELSE "handed"
  /\ sdk_ret' = NoValue
  /\ sdk_exc' = "-"
  /\ args' = NoArgs
  /\ UNCHANGED <<cfg, participants, cfgVars, event, appVars>>

\* The client calls add_participant_async or remove_participant_async of
\* a Conversation: the method checks its two arguments and forwards one of
\* them to the native asynchronous operation, whose future it returns.
CallParticipantMethod(op, participant, user_id) ==
  /\ SdkFree
  /\ op \in ParticipantOps
  /\ LET done == IF op = "add_participant"
                   THEN add_participant_async(participant, user_id)
                   ELSE remove_participant_async(participant, user_id)
     IN /\ call' = [cls |-> "Conversation", op |-> op, variant |-> "async"]
        /\ args' = [participant |-> participant, user_id |-> user_id,
                    native_arg |-> done.native_arg, before |-> participants]
        /\ sdk_exc' = done.raised
        /\ future' = IF done.raised = "-"
                       THEN [state |-> "pending", method |-> op,
                             value |-> NoValue]
                       ELSE NoFuture
        /\ sdk_pc' = IF done.raised = "-" THEN "handed" ELSE "raised"
  /\ sdk_ret' = NoValue
  /\ UNCHANGED <<cfg, participants, cfgVars, event, appVars>>

\* The client calls a variant the class does not define: AttributeError.
CallMissingMethod(cls, op, variant) ==
  /\ SdkFree
  /\ <<op, variant>> \notin Methods(cls)
  /\ call' = [cls |-> cls, op |-> op, variant |-> variant]
  /\ future' = NoFuture
  /\ sdk_pc' = "raised"
  /\ sdk_ret' = NoValue
  /\ sdk_exc' = "AttributeError"
  /\ args' = NoArgs
  /\ UNCHANGED <<cfg, participants, cfgVars, event, appVars>>

\* The native engine fulfils the pending future.
NativeFulfil(v) ==
  /\ future.state = "pending"
  /\ v \in NativeResults(future.method)
  /\ future' = [future EXCEPT !.state = "done", !.value = v]
  /\ participants' = NativeParticipants(future.method, v, participants)
  /\ UNCHANGED <<cfg, call, sdk_pc, sdk_ret, sdk_exc, args, cfgVars, event, appVars>>

\* The blocking method returns: impl.op_async().get(), wrapped as the
\* method wraps it.
BlockingReturn ==
  /\ sdk_pc = "blocked"
  /\ future.state = "done"
  /\ sdk_ret' = BlockingResult(call.op, future.value)
  /\ sdk_pc' = "returned"
  /\ UNCHANGED <<cfg, call, future, sdk_exc, args, participants, cfgVars, event, appVars>>

\* The client waits on the future the _async method returned.
FutureGet ==
  /\ sdk_pc = "handed"
  /\ future.state = "done"
  /\ sdk_ret' = Get(AsyncWrapper(call.cls, call.op), future.value)
  /\ sdk_pc' = "returned"
  /\ UNCHANGED <<cfg, call, future, sdk_exc, args, participants, cfgVars, event, appVars>>

\* ------------------------------------------------------------------- next

NextOf(t) ==
  \/ \E req \in Requests : HandleRequest(t, req)
  \/ \E p \in InputPaths : CallConvert(t, p)
  \/ FromFile(t)
  \/ FromFileRaises(t)
  \/ ExportOpen(t)
  \/ ExportWrite(t)
  \/ ConvertReturn(t)
  \/ \E p \in InputPaths : CallVoiceToText(t, p)
  \/ ChainVoiceToText(t)
  \/ OpenSession(t)
  \/ \E r \in AllResults : RecognizeOnce(t, r)
  \/ RecognizeOnceRaises(t)
  \/ ReportAndReturn(t)

Next == \E t \in Threads : NextOf(t)

Spec == Init /\ [][Next]_vars

\* One caller on its own: the calls follow one another.
NextSeq == NextOf(1)

SpecSeq == Init /\ [][NextSeq]_vars

\* The application as deployed: callers only arrive as HTTP requests.
NextHttp == \E t \in Threads : \E req \in Requests : HandleRequest(t, req)

SpecHttp == Init /\ [][NextHttp]_vars

\* A client of the SDK's dialog and transcription classes.
NextSdk ==
  \/ \E c \in {NoNativeConfig, NativeConfig("caller")} :
       ConstructDialogServiceConfig(c)
  \/ \E s, a, r \in OptionalStr : ConstructBotFrameworkConfig(s, a, r)
  \/ \E i, s, a, r \in OptionalStr : ConstructCustomCommandsConfig(i, s, a, r)
  \/ \E cls \in Classes : \E op \in Operations(cls) : \E v \in Variants :
       CallMethod(cls, op, v)
  \/ \E cls \in Classes : \E op \in Operations(cls) : \E v \in Variants :
       CallMissingMethod(cls, op, v)
  \/ \E op \in ParticipantOps : \E p, u \in OptionalStr :
       CallParticipantMethod(op, p, u)
  \/ \E v \in AllNativeResults : NativeFulfil(v)
  \/ BlockingReturn
  \/ FutureGet
  \/ \E e \in NativeEvtArgs : ReceiveActivity(e)

SpecSdk == Init /\ [][NextSdk]_vars

\* A client that constructs configs, reads and sets their properties, and
\* constructs connectors from them.
NextCfg ==
  \/ \E c \in {NoNativeConfig, NativeConfig("caller")} :
       ConstructDialogServiceConfig(c)
  \/ \E s, a, r \in OptionalStr : ConstructBotFrameworkConfig(s, a, r)
  \/ \E i, s, a, r \in OptionalStr : ConstructCustomCommandsConfig(i, s, a, r)
  \/ \E k \in KeyArgs : GetProperty(k)
  \/ \E k \in KeyArgs : GetPropertyByName(k)
  \/ \E k \in KeyArgs : \E v \in PropValues : SetProperty(k, v)
  \/ \E k \in KeyArgs : \E v \in PropValues : SetPropertyByName(k, v)
  \/ \E ch \in ChannelArgs : \E v \in PropValues : SetServiceProperty(ch, v)
  \/ \E c \in ConfigArgs : \E a \in {"None", "AudioConfig"} :
       ConstructConnector(c, a)

SpecCfg == Init /\ [][NextCfg]_vars

\* ----------------------------------------------------------------- helpers

DecodeExceptions == {"CouldntDecodeError", "FileNotFoundError"}

\* The caller's conversion failed to decode its input: the decode exception
\* is pending, or the call is past the decode of an input file that does
\* not decode (the input files other than dst never change).
DecodeFailed(t) ==
  \/ exc[t] \in DecodeExceptions
  \/ /\ input_path[t] \in InputPaths \ {DST}
     /\ ~Decodable(fs[input_path[t]])
     /\ pc[t] # "c_decode"

\* The branches of the if/elif chain whose report the call printed.
BranchHeads ==
  {"Recognized: ", "No speech could be recognized: ",
   "Speech Recognition canceled: "}
BranchesTaken(t) == {out[t][i][1] : i \in DOMAIN out[t]} \cap BranchHeads

\* voice_to_text is past its recognition call.
RecognitionEnded(t) ==
  \/ pc[t] \in {"v_report", "v_done"}
  \/ pc[t] = "raised" /\ exc[t] = "RuntimeError"

UploadPost(t) ==
  /\ pc[t] = "responded"
  /\ request[t].route = "/uploader"
  /\ request[t].method = "POST"

\* ------------------------------------------------------------------ claims

\* C1: every call of voice_to_text that gets a result from the service
\* produces exactly one outcome: before the recognition call returns it has
\* none, and when it returns, its return value is the one complete result
\* the single recognition call gave for the audio it read.
C1_ExactlyOneOutcome ==
  \A t \in Threads :
    /\ pc[t] \in {"v_config", "v_recognize"} =>
         result[t] = NoResult /\ ret[t] = NoResult
    /\ pc[t] = "v_report" => ret[t] = NoResult
    /\ pc[t] = "v_done" =>
         /\ attempts[t] = 1
         /\ ret[t] = result[t]
         /\ ret[t] \in ServiceResults(heard[t])
         /\ Cardinality(BranchesTaken(t)) <= 1

\* A call returned a result of the fourth kind, as its one outcome.
C1_Witness ==
  \E t \in Threads : pc[t] = "v_done" /\ ret[t] = OtherReason /\ attempts[t] = 1

\* C2: every result the recognition call returns is classified by
\* voice_to_text as exactly one of Recognized, NoMatch or Canceled.
C2_ClosedSet ==
  \A t \in Threads :
    pc[t] = "v_done" =>
      /\ ret[t].reason \in {"RecognizedSpeech", "NoMatch", "Canceled"}
      /\ Cardinality(BranchesTaken(t)) = 1

\* C3: once a caller's own conversion has returned the destination path, the
\* file there is the wave file of that caller's own input, and so is the
\* audio the caller's recognition reads from it.
C3_NoCrossContamination ==
  \A t \in Threads :
    /\ pc[t] = "c_done" => fs[DST] = ExportWav(sound[t])
    /\ (conv_ret[t] = DST /\ attempts[t] = 1) => heard[t] = ExportWav(sound[t])

\* C4: a decode failure leaves convert_audio as an exception, distinct from a
\* return, and the caller's request opens no recognition session and issues
\* no recognition call.
C4_DecodeFailureAborts ==
  \A t \in Threads :
    DecodeFailed(t) =>
      /\ pc[t] = "raised"
      /\ exc[t] \in DecodeExceptions
      /\ session[t] = NoSession
      /\ attempts[t] = 0

\* A conversion has failed on the undecodable file while another caller has
\* a recognition session open.
C4_Witness ==
  \E t \in Threads :
    /\ pc[t] = "raised" /\ exc[t] = "CouldntDecodeError"
    /\ input_path[t] = "bad.bin"
    /\ \E u \in Threads \ {t} : session[u] # NoSession

\* C5: when decoding fails, convert_audio ends in an error, returns no path,
\* and has not written to the destination.
C5_DecodeFailureNoOutput ==
  \A t \in Threads :
    DecodeFailed(t) =>
      /\ pc[t] = "raised"
      /\ conv_ret[t] = "-"
      /\ ~wrote[t]
      /\ sound[t] = "none"

\* A conversion failed while the destination holds a complete wave file.
C5_Witness ==
  \E t \in Threads :
    /\ pc[t] = "raised" /\ exc[t] \in DecodeExceptions
    /\ fs[DST].fmt = "wav"

\* C6: after a POST to /uploader with a file, the response is the redirect
\* to the menu view and the uploaded file is stored at some path.
C6_UploadStored ==
  \A t \in Threads :
    (UploadPost(t) /\ request[t].file # NoFile) =>
      /\ resp[t] = Redirect("/menu_page")
      /\ \E p \in DOMAIN fs : fs[p] = request[t].file

\* C7: a GET to /uploader is answered with a rendered page.
C7_GetRendersForm ==
  \A t \in Threads :
    (pc[t] = "responded" /\ request[t].route = "/uploader"
       /\ request[t].method = "GET") =>
      resp[t].kind = "page" /\ resp[t].status = 200

\* C8: a POST to /uploader without a file ends in a client-error status,
\* not in a 500 and not in the answer of a successful upload.
C8_MissingFileRejected ==
  \A t \in Threads :
    (UploadPost(t) /\ request[t].file = NoFile) =>
      /\ resp[t].status \in 400..499
      /\ resp[t] # Redirect("/menu_page")

\* C9: the handler of an upload responds only after the conversion has
\* finished and the recognition call has returned, and recognition starts
\* only after the conversion has finished.
C9_StagesInOrder ==
  \A t \in Threads :
    /\ (UploadPost(t) /\ request[t].file # NoFile) =>
         conv_ret[t] = DST /\ ret[t] # NoResult
    /\ (input_path[t] # "-" /\ session[t] # NoSession) => conv_ret[t] = DST

\* C10: a call of voice_to_text issues no recognition attempt before its
\* recognition call and exactly one by the time that call has returned a
\* result or raised; it never issues a second one.
C10_SingleAttempt ==
  \A t \in Threads :
    /\ attempts[t] <= 1
    /\ pc[t] \in {"v_config", "v_recognize"} => attempts[t] = 0
    /\ RecognitionEnded(t) => attempts[t] = 1

\* A call ended by an error raised by the recognition call, after one attempt.
C10_Witness ==
  \E t \in Threads :
    pc[t] = "raised" /\ exc[t] = "RuntimeError" /\ attempts[t] = 1

\* C11: for a Canceled result voice_to_text prints the cancellation reason,
\* and prints the error details if and only if that reason is Error; a
\* NoMatch result is not printed as a cancellation and a Canceled result is
\* not printed as a no-match.
C11_CanceledReported ==
  \A t \in Threads :
    pc[t] = "v_done" =>
      /\ ret[t].reason = "Canceled" =>
           /\ \E i \in DOMAIN out[t] :
                out[t][i] = <<"Speech Recognition canceled: ",
                              ret[t].cancellation_reason>>
           /\ (\E i \in DOMAIN out[t] :
                 out[t][i] = <<"Errtranscripcionor details: ",
                               ret[t].error_details>>)
                <=> ret[t].cancellation_reason = "Error"
           /\ \A i \in DOMAIN out[t] :
                out[t][i][1] # "No speech could be recognized: "
      /\ ret[t].reason = "NoMatch" =>
           \A i \in DOMAIN out[t] :
             out[t][i][1] \notin {"Speech Recognition canceled: ",
                                  "Errtranscripcionor details: "}

\* A call returned a cancellation that is not an error, and printed its
\* reason.
C11_Witness ==
  \E t \in Threads :
    /\ pc[t] = "v_done"
    /\ ret[t] = Canceled("EndOfStream", "")
    /\ Len(out[t]) = 2

C13_SingleSlot ==
  \A t \in Threads :
    pc[t] = "c_done" =>
      /\ conv_ret[t] = "audio/test.wav"
      /\ fs[DST] = ExportWav(sound[t])
      /\ fs[DST].audio = Decode(IF input_path[t] = DST
                                  THEN fs[DST] ELSE fs[input_path[t]])

\* A conversion returned whose input was the destination as an earlier
\* conversion, of b.ogg, had left it.
C13_Witness ==
  /\ pc[1] = "c_done"
  /\ input_path[1] = DST
  /\ sound[1] = "B"
  /\ fs[DST] = Encoded("wav", "B")

\* C18: whatever requests the application's routes receive, the destination
\* of the conversions keeps its content and no recognition session is
\* opened.
C18_UploadInvokesNothing ==
  /\ fs \in {InitialFiles(slot) : slot \in InitialSlots}
  /\ \A t \in Threads :
       /\ ~wrote[t]
       /\ sound[t] = "none"
       /\ session[t] = NoSession
       /\ attempts[t] = 0

\* An upload with a file was answered.
C18_Witness ==
  \E t \in Threads : UploadPost(t) /\ request[t].file = UploadedFile

\* C19: the result a conversion leaves in the destination is never read by
\* a second recognition call and never overwritten before a recognition
\* call has read it.
C19_ReadExactlyOnce == slot_life \notin {"reread", "lost"}

\* C20: every session voice_to_text opens has the same subscription key,
\* region and recognition language, set by the time the recognizer exists;
\* sessions differ at most in the audio path, which is the call's argument.
C20_FixedSession ==
  \A t \in Threads :
    pc[t] \in {"v_recognize", "v_report", "v_done"} =>
      /\ session[t].subscription = "9f0e9105b01446e9a97f495cf1404ff2"
      /\ session[t].region = "westus2"
      /\ session[t].language = "es-ES"
      /\ session[t].filename = audiofile[t]
      /\ \A u \in Threads :
           session[u] # NoSession =>
             [session[u] EXCEPT !.filename = audiofile[t]] = session[t]

\* Two calls on different paths have their recognizers at the same time.
C20_Witness ==
  \E t, u \in Threads :
    /\ pc[t] = "v_recognize"
    /\ pc[u] = "v_recognize"
    /\ session[t].filename = "a.mp3"
    /\ session[u].filename = DST

\* C14 as stated: every class offers both variants of every operation, so
\* no call of a variant fails for want of the method, and what a call
\* returns is what waiting on the future-returning variant yields.
C14_BothVariantsEverywhere ==
  /\ sdk_exc # "AttributeError"
  /\ sdk_pc = "returned" =>
       sdk_ret = Get(AsyncWrapper(call.cls, call.op), future.value)

\* C14, amended: DialogServiceConnector offers a blocking and a
\* future-returning variant of each of its seven operations, and a blocking
\* call starts the same native operation and returns the same value as
\* waiting on the future-returning variant; Conversation and
\* ConversationTranscriber offer only the future-returning variant, so a
\* call of a blocking variant on them raises AttributeError.
C14_ConnectorBlockingIsAsyncGet ==
  /\ \A op \in ConnectorOps : \A v \in Variants :
       <<op, v>> \in Methods("DialogServiceConnector")
  /\ \A cls \in {"Conversation", "ConversationTranscriber"} :
       \A op \in Operations(cls) :
         /\ <<op, "async">> \in Methods(cls)
         /\ <<op, "blocking">> \notin Methods(cls)
  /\ sdk_pc = "returned" =>
       /\ future.method = call.op
       /\ future.state = "done"
       /\ sdk_ret = Get(AsyncWrapper(call.cls, call.op), future.value)
  /\ sdk_exc = "AttributeError" =>
       /\ sdk_pc = "raised"
       /\ call.cls \in {"Conversation", "ConversationTranscriber"}
       /\ call.variant = "blocking"
       /\ future = NoFuture

\* The blocking listen_once of DialogServiceConnector returned a result.
C14_Witness ==
  /\ sdk_pc = "returned"
  /\ call = [cls |-> "DialogServiceConnector", op |-> "listen_once",
             variant |-> "blocking"]
  /\ sdk_ret = [type |-> "SpeechRecognitionResult", val |-> "hola"]

\* C15: constructing a BotFrameworkConfig succeeds exactly when region is
\* given together with exactly one of subscription and auth_token; in every
\* other case it raises ValueError and no native config is created; on
\* success the native config comes from the subscription constructor
\* exactly when subscription is given, and else from the
\* authorization-token one.
C15_BotFrameworkConfigArgs ==
  cfg.cls = "BotFrameworkConfig" =>
    /\ cfg.raised = "-" <=>
         /\ cfg.region # "None"
         /\ (cfg.subscription # "None") # (cfg.auth_token # "None")
    /\ cfg.raised # "-" =>
         cfg.raised = "ValueError" /\ cfg.impl = NoNativeConfig
    /\ cfg.raised = "-" =>
         cfg.impl.ctor = IF cfg.subscription # "None"
                           THEN "_from_subscription"
                           ELSE "_from_authorization_token"

\* A BotFrameworkConfig was constructed from an authorization token.
C15_Witness ==
  /\ cfg.cls = "BotFrameworkConfig"
  /\ cfg.raised = "-"
  /\ cfg.auth_token = "str"
  /\ cfg.impl.ctor = "_from_authorization_token"

\* C16: constructing a CustomCommandsConfig succeeds exactly when app_id
\* and region are given together with exactly one of subscription and
\* auth_token; in every other case it raises ValueError and no native
\* config is created.
C16_CustomCommandsConfigArgs ==
  cfg.cls = "CustomCommandsConfig" =>
    /\ cfg.raised = "-" <=>
         /\ cfg.app_id # "None"
         /\ cfg.region # "None"
         /\ (cfg.subscription # "None") # (cfg.auth_token # "None")
    /\ cfg.raised # "-" =>
         cfg.raised = "ValueError" /\ cfg.impl = NoNativeConfig

\* A CustomCommandsConfig was refused for its missing application id
\* alone.
C16_Witness ==
  /\ cfg.cls = "CustomCommandsConfig"
  /\ cfg.raised = "ValueError"
  /\ cfg.app_id = "None"
  /\ cfg.subscription = "str"
  /\ cfg.auth_token = "None"
  /\ cfg.region = "str"

\* C17: constructing DialogServiceConfig itself raises and leaves the
\* system-language property of the native config unset; every
\* BotFrameworkConfig and CustomCommandsConfig that was constructed has the
\* property set to "Python".
C17_BaseNotInstantiable ==
  /\ cfg.cls = "DialogServiceConfig" =>
       cfg.raised = "Exception" /\ cfg.impl.syslang = "unset"
  /\ (cfg.cls \in {"BotFrameworkConfig", "CustomCommandsConfig"}
       /\ cfg.raised = "-") =>
       cfg.impl.syslang = "Python"

\* DialogServiceConfig was constructed on a native config.
C17_Witness ==
  /\ cfg.cls = "DialogServiceConfig"
  /\ cfg.impl.ctor = "caller"

\* C21: voice_to_text returns the result object of its recognition call
\* unchanged whatever the result's reason; for a reason outside the three
\* branches it prints no report and still returns the result: a call that
\* got a result never ends with an exception.
C21_ResultReturnedUnchanged ==
  \A t \in Threads :
    /\ pc[t] = "v_done" =>
         /\ ret[t] = result[t]
         /\ exc[t] = "-"
         /\ ret[t].reason \notin {"RecognizedSpeech", "NoMatch", "Canceled"} =>
              out[t] = <<PROMPT>>
    /\ (pc[t] = "raised" /\ audiofile[t] # "-") => result[t] = NoResult

\* A call returned a result whose reason is none of the three, having
\* printed the prompt only.
C21_Witness ==
  \E t \in Threads :
    /\ pc[t] = "v_done"
    /\ ret[t].reason = "RecognizedKeyword"
    /\ out[t] = <<PROMPT>>

\* C22: add_participant_async and remove_participant_async start the native
\* operation exactly when one of participant and user_id is given, and
\* forward the one that is; given both or neither they raise ValueError,
\* start no native operation, and the conversation's participants stay as
\* they were.
C22_ParticipantArgs ==
  (call.cls = "Conversation" /\ call.op \in ParticipantOps
     /\ call.variant = "async") =>
    /\ sdk_exc = "-" <=> (args.participant # "None") # (args.user_id # "None")
    /\ sdk_exc = "-" =>
         /\ future.method = call.op
         /\ future.state \in {"pending", "done"}
         /\ args.native_arg = IF args.participant # "None"
                                THEN "participant._impl" ELSE "user_id"
    /\ sdk_exc # "-" =>
         /\ sdk_exc = "ValueError"
         /\ future = NoFuture
         /\ args.native_arg = "-"
         /\ participants = args.before

\* remove_participant_async was refused for being given both arguments, in
\* a conversation that has a participant.
C22_Witness ==
  /\ call.op = "remove_participant"
  /\ sdk_exc = "ValueError"
  /\ args.participant = "str"
  /\ args.user_id = "str"
  /\ participants = {"user-1"}

\* C23: an accessor of a config raises TypeError exactly when its typed
\* argument has the wrong type -- get_property and set_property unless the
\* key is a PropertyId, get_property_by_name and set_property_by_name
\* unless it is a str, set_service_property unless the channel is a
\* ServicePropertyChannel -- and then it has not called the native config
\* and every property has the value it had before the call.
C23_TypedAccessors ==
  acc.method # "-" =>
    /\ acc.raised = "TypeError" <=>
         acc.key.type #
           (CASE acc.method \in {"get_property", "set_property"} ->
                   "PropertyId"
              [] acc.method \in {"get_property_by_name",
                                 "set_property_by_name"} -> "str"
              [] OTHER -> "ServicePropertyChannel")
    /\ acc.raised = "TypeError" => ~acc.native /\ props = acc.before
    /\ acc.raised # "TypeError" => acc.raised = "-" /\ acc.native

\* set_property was refused a property name, on a config one of whose
\* properties has been set.
C23_Witness ==
  /\ acc.method = "set_property"
  /\ acc.key.type = "str"
  /\ acc.raised = "TypeError"
  /\ props["name-1"] = "v"

\* C24: constructing a DialogServiceConnector raises ValueError and creates
\* no native connector exactly when dialog_service_config is not a
\* DialogServiceConfig instance; otherwise it creates one native connector,
\* with the audio config's native handle when audio_config is given and
\* with None when it is not.
C24_ConnectorConstruction ==
  connector.config # "-" =>
    /\ connector.raised = "ValueError" <=>
         connector.config \notin {"DialogServiceConfig", "BotFrameworkConfig",
                                  "CustomCommandsConfig"}
    /\ connector.raised = "ValueError" =>
         connector.created = 0 /\ connector.native_audio = "-"
    /\ connector.raised # "ValueError" =>
         /\ connector.raised = "-"
         /\ connector.created = 1
         /\ connector.native_audio =
              IF connector.audio_config = "None"
                THEN "None" ELSE "audio_config._impl"

\* A connector was constructed from a CustomCommandsConfig without an
\* audio config.
C24_Witness ==
  /\ connector.config = "CustomCommandsConfig"
  /\ connector.audio_config = "None"
  /\ connector.created = 1
  /\ connector.native_audio = "None"

\* C25: the audio of an ActivityReceivedEventArgs is a
\* PullAudioOutputStream exactly when its has_audio is True, and None
\* otherwise; for a payload without audio data has_audio is False and audio
\* is None.
C25_AudioIffHasAudio ==
  event # NoEvent =>
    /\ event.audio.type = "PullAudioOutputStream" <=> event.has_audio = PyTrue
    /\ event.has_audio # PyTrue => event.audio = PyNone
    /\ ~event.evt_args.data => event.has_audio = PyFalse /\ event.audio = PyNone

\* An activity without audio data was delivered.
C25_Witness ==
  /\ event # NoEvent
  /\ ~event.evt_args.data
  /\ event.audio = PyNone

====
